---- MODULE Spec2Model ----
(***************************************************************************)
(* Model of the text chunking engine of semantic-document-indexer.         *)
(* Two copies of the splitters exist in the repository:                    *)
(*   "root" : text_splitter.py                                             *)
(*   "src"  : src/text_splitter.py                                         *)
(* A text is a sequence of one-character strings.                          *)
(***************************************************************************)
EXTENDS Integers, Sequences, FiniteSets, TLC

\* ------------------------------------------------------------------ bounds
MaxLen == 6
MaxChunk == 4
MaxOverlap == 3
MaxNegOverlap == 1
MaxChars == 4

Alphabet == {"a", " ", "\n"}
Whitespace == {" ", "\n"}
Copies == {"root", "src"}

Texts == UNION {[1..n -> Alphabet] : n \in 0..MaxLen}
ChunkSizes == 0..MaxChunk
Overlaps == (0 - MaxNegOverlap)..MaxOverlap
MaxCharsValues == 0..MaxChars

\* state of one call of a splitter
VARIABLES pc, op, impl, text, chunk_size, overlap, max_chars,
          tok_failed, units, start, chunks, groups, error, tok_called

splitVars == <<pc, op, impl, text, chunk_size, overlap, max_chars,
               tok_failed, units, start, chunks, groups, error, tok_called>>

\* state of one run of process_document (index_documents.py)
VARIABLES p_pc, p_copy, p_strategy, p_chunks, p_embeddings, p_result,
          p_failure, p_trace, p_split_calls, p_embed_calls, p_insert_calls,
          p_debug, p_raised

pipeVars == <<p_pc, p_copy, p_strategy, p_chunks, p_embeddings, p_result,
              p_failure, p_trace, p_split_calls, p_embed_calls,
              p_insert_calls, p_debug, p_raised>>

\* the table document_chunks and the last call of insert_chunks
\* (database_manager.py)
VARIABLES d_store, d_prev, d_call, d_outcome, d_ncalls, d_last

dbVars == <<d_store, d_prev, d_call, d_outcome, d_ncalls, d_last>>

\* state of one call of get_embedding (embedding_client.py)
VARIABLES e_pc, e_text, e_attempt, e_calls, e_result, e_sleeps

embedVars == <<e_pc, e_text, e_attempt, e_calls, e_result, e_sleeps>>

\* the threads inside split_by_sentence and the tokenizer data on disk
VARIABLES n_pc, n_punkt, n_downloads

punktVars == <<n_pc, n_punkt, n_downloads>>

\* state of one call of load_and_clean_document (document_loader.py)
VARIABLES l_pc, l_exists, l_suffix, l_parse, l_raw, l_result, l_error

loadVars == <<l_pc, l_exists, l_suffix, l_parse, l_raw, l_result, l_error>>

otherThanSplit == <<pipeVars, dbVars, embedVars, punktVars, loadVars>>
otherThanPipe == <<splitVars, dbVars, embedVars, punktVars, loadVars>>
otherThanDb == <<splitVars, pipeVars, embedVars, punktVars, loadVars>>
otherThanEmbed == <<splitVars, pipeVars, dbVars, punktVars, loadVars>>
otherThanPunkt == <<splitVars, pipeVars, dbVars, embedVars, loadVars>>
otherThanLoad == <<splitVars, pipeVars, dbVars, embedVars, punktVars>>

vars == <<splitVars, pipeVars, dbVars, embedVars, punktVars, loadVars>>

\* the values of the variables of a component that is not running
SplitIdle ==
    /\ pc = "call" /\ text = <<>> /\ op = "none" /\ impl = "none"
    /\ chunk_size = 0 /\ overlap = 0 /\ max_chars = 0
    /\ tok_failed = FALSE /\ units = <<>> /\ start = 0
    /\ chunks = <<>> /\ groups = <<>> /\ error = "none"
    /\ tok_called = FALSE

PipeIdle ==
    /\ p_pc = "idle" /\ p_copy = "none" /\ p_strategy = "none"
    /\ p_chunks = <<>> /\ p_embeddings = <<>> /\ p_result = "pending"
    /\ p_failure = "none" /\ p_trace = <<>> /\ p_split_calls = <<>>
    /\ p_embed_calls = <<>> /\ p_insert_calls = <<>> /\ p_debug = "none"
    /\ p_raised = {}

NoCall == [filename |-> "none", strategy |-> "none",
           chunks |-> <<>>, vectors |-> <<>>]

DbIdle ==
    /\ d_store = <<>> /\ d_prev = <<>> /\ d_call = NoCall
    /\ d_outcome = "none" /\ d_ncalls = 0 /\ d_last = <<>>

EmbedIdle ==
    /\ e_pc = "idle" /\ e_text = "" /\ e_attempt = 0 /\ e_calls = <<>>
    /\ e_result = "pending" /\ e_sleeps = 0

PunktIdle ==
    /\ n_pc = <<>> /\ n_punkt = FALSE /\ n_downloads = 0

LoadIdle ==
    /\ l_pc = "idle" /\ l_exists = FALSE /\ l_suffix = ""
    /\ l_parse = [raises |-> FALSE, pages |-> <<>>]
    /\ l_raw = <<>> /\ l_result = <<>> /\ l_error = "none"

\* ------------------------------------------------------- string helpers
Min(a, b) == IF a < b THEN a ELSE b

\* text[start:end] with 0 <= start <= end <= len(text)
Slice(s, from, to) == SubSeq(s, from + 1, to)

RECURSIVE LStrip(_)
LStrip(s) ==
    IF s # <<>> /\ Head(s) \in Whitespace THEN LStrip(Tail(s)) ELSE s

RECURSIVE RStrip(_)
RStrip(s) ==
    IF s # <<>> /\ s[Len(s)] \in Whitespace
    THEN RStrip(SubSeq(s, 1, Len(s) - 1))
    ELSE s

\* str.strip()
Strip(s) == RStrip(LStrip(s))

\* sep.join(parts)
RECURSIVE Join(_, _)
Join(parts, sep) ==
    IF parts = <<>> THEN <<>>
    ELSE IF Len(parts) = 1 THEN parts[1]
    ELSE parts[1] \o sep \o Join(Tail(parts), sep)

\* index of the last newline of the run of newlines that starts at i
RECURSIVE RunEnd(_, _)
RunEnd(s, i) ==
    IF i < Len(s) /\ s[i + 1] = "\n" THEN RunEnd(s, i + 1) ELSE i

\* re.split(r'\n{2,}', s): the pieces between maximal runs of two or more
\* newlines, empty pieces included
RECURSIVE ReSplit(_, _, _)
ReSplit(s, i, cur) ==
    IF i > Len(s) THEN <<cur>>
    ELSE IF s[i] = "\n" /\ i < Len(s) /\ s[i + 1] = "\n"
         THEN <<cur>> \o ReSplit(s, RunEnd(s, i) + 1, <<>>)
         ELSE ReSplit(s, i + 1, Append(cur, s[i]))

\* [p.strip() for p in pieces if p.strip()]
RECURSIVE StripNonEmpty(_)
StripNonEmpty(pieces) ==
    IF pieces = <<>> THEN <<>>
    ELSE IF Strip(Head(pieces)) # <<>>
         THEN <<Strip(Head(pieces))>> \o StripNonEmpty(Tail(pieces))
         ELSE StripNonEmpty(Tail(pieces))

Paragraphs(s) == StripNonEmpty(ReSplit(s, 1, <<>>))

\* ------------------------------------------------- sentence tokenizer
\* nltk.sent_tokenize is an external library: it returns the sentences of
\* the text in order, without the whitespace between them, and no empty
\* sentence.  Where it cuts is left open: any set of cut positions.
RECURSIVE CutPieces(_, _, _)
CutPieces(s, cuts, from) ==
    LET later == {c \in cuts : c > from} IN
    IF later = {} THEN <<Slice(s, from, Len(s))>>
    ELSE LET c == CHOOSE x \in later : \A y \in later : x <= y
         IN <<Slice(s, from, c)>> \o CutPieces(s, cuts, c)

SentTokenize(s) ==
    {StripNonEmpty(CutPieces(s, cuts, 0)) : cuts \in SUBSET (1..(Len(s) - 1))}

\* ------------------------------------------------------ greedy packing
EmptyPack == [chunks |-> <<>>, groups |-> <<>>,
              current_chunk |-> <<>>, current_len |-> 0]

\* Flush without the `if current_chunk:` guard
FlushUnguarded(st, sep) ==
    [st EXCEPT !.chunks = Append(@, Join(st.current_chunk, sep)),
               !.groups = Append(@, st.current_chunk)]

\* close the accumulator: chunks.append(sep.join(current_chunk))
Flush(st, sep) ==
    IF st.current_chunk # <<>>
    THEN [st EXCEPT !.chunks = Append(@, Join(st.current_chunk, sep)),
                    !.groups = Append(@, st.current_chunk)]
    ELSE st

\* PackStepSrc that restarts the running length at 0 instead of unit_len
PackStepSrcLenReset(st, unit, maxc, sep) ==
    LET unit_len == Len(unit)
        sep_len == 1
        extra == IF st.current_chunk # <<>> THEN sep_len ELSE 0
    IN IF st.current_len + unit_len + extra > maxc
       THEN [Flush(st, sep) EXCEPT !.current_chunk = <<unit>>,
                                   !.current_len = 0]
       ELSE [st EXCEPT !.current_chunk = Append(@, unit),
                       !.current_len = @ + unit_len + extra]

\* PackStepSrc that counts a separator for the first unit as well
PackStepSrcAlwaysExtra(st, unit, maxc, sep) ==
    LET unit_len == Len(unit)
        sep_len == 1
        extra == sep_len
    IN IF st.current_len + unit_len + extra > maxc
       THEN [Flush(st, sep) EXCEPT !.current_chunk = <<unit>>,
                                   !.current_len = unit_len]
       ELSE [st EXCEPT !.current_chunk = Append(@, unit),
                       !.current_len = @ + unit_len + extra]

\* one iteration of the loop of src/text_splitter.py
PackStepSrc(st, unit, maxc, sep) ==
    LET unit_len == Len(unit)
        sep_len == 1
        extra == IF st.current_chunk # <<>> THEN sep_len ELSE 0
    IN IF st.current_len + unit_len + extra > maxc
       THEN [Flush(st, sep) EXCEPT !.current_chunk = <<unit>>,
                                   !.current_len = unit_len]
       ELSE [st EXCEPT !.current_chunk = Append(@, unit),
                       !.current_len = @ + unit_len + extra]

\* one iteration of the loop of text_splitter.py
PackStepRoot(st, unit, maxc, sep) ==
    LET unit_len == Len(unit)
    IN IF st.current_len + unit_len > maxc
       THEN [Flush(st, sep) EXCEPT !.current_chunk = <<unit>>,
                                   !.current_len = unit_len]
       ELSE [st EXCEPT !.current_chunk = Append(@, unit),
                       !.current_len = @ + unit_len + 1]

PackStep(copy, st, unit, maxc, sep) ==
    IF copy = "src" THEN PackStepSrc(st, unit, maxc, sep)
    ELSE PackStepRoot(st, unit, maxc, sep)

\* for unit in units: ...
RECURSIVE PackLoop(_, _, _, _, _)
PackLoop(copy, st, us, maxc, sep) ==
    IF us = <<>> THEN st
    ELSE PackLoop(copy, PackStep(copy, st, Head(us), maxc, sep),
                  Tail(us), maxc, sep)

\* GreedyPack without the flush of the final accumulator
GreedyPackNoFinalFlush(copy, us, maxc, sep) ==
    PackLoop(copy, EmptyPack, us, maxc, sep)

\* the loop, then the flush of the final accumulator
GreedyPack(copy, us, maxc, sep) ==
    Flush(PackLoop(copy, EmptyPack, us, maxc, sep), sep)

\* ------------------------------------------------------------- actions
Init ==
    /\ pc = "call"
    /\ text \in Texts
    /\ op = "none"
    /\ impl = "none"
    /\ chunk_size = 0
    /\ overlap = 0
    /\ max_chars = 0
    /\ tok_failed = FALSE
    /\ units = <<>>
    /\ start = 0
    /\ chunks = <<>>
    /\ groups = <<>>
    /\ error = "none"
    /\ tok_called = FALSE
    /\ PipeIdle
    /\ DbIdle
    /\ EmbedIdle
    /\ PunktIdle
    /\ LoadIdle

\* EnterFixed with the parameter check before the empty-text check
EnterFixedCheckFirst(cs, ov) ==
    /\ chunk_size' = cs
    /\ overlap' = ov
    /\ start' = 0
    /\ chunks' = <<>>
    /\ IF ov >= cs
       THEN pc' = "done" /\ error' = "ValueError"
       ELSE IF text = <<>>
            THEN pc' = "done" /\ error' = "none"
            ELSE pc' = "fixed_loop" /\ error' = "none"

\* EnterFixed with the parameter check `overlap > chunk_size`
EnterFixedStrictCheck(cs, ov) ==
    /\ chunk_size' = cs
    /\ overlap' = ov
    /\ start' = 0
    /\ chunks' = <<>>
    /\ IF text = <<>>
       THEN pc' = "done" /\ error' = "none"
       ELSE IF ov > cs
            THEN pc' = "done" /\ error' = "ValueError"
            ELSE pc' = "fixed_loop" /\ error' = "none"

\* the body of split_by_fixed_size up to the loop, entered with the
\* parameters cs and ov
EnterFixed(cs, ov) ==
    /\ chunk_size' = cs
    /\ overlap' = ov
    /\ start' = 0
    /\ chunks' = <<>>
    /\ IF text = <<>>
       THEN pc' = "done" /\ error' = "none"
       ELSE IF ov >= cs
            THEN pc' = "done" /\ error' = "ValueError"
            ELSE pc' = "fixed_loop" /\ error' = "none"

\* the fallback called with an overlap of 1
SentenceFallbackOverlap(maxc) == EnterFixed(maxc, 1)

\* except: return split_by_fixed_size(text, max_chars, 0)
SentenceFallback(maxc) == EnterFixed(maxc, 0)

split_by_fixed_size ==
    /\ pc = "call"
    /\ \E copy \in Copies, cs \in ChunkSizes, ov \in Overlaps :
          /\ impl' = copy
          /\ EnterFixed(cs, ov)
    /\ op' = "fixed"
    /\ UNCHANGED <<text, max_chars, tok_failed, units, groups, tok_called>>
    /\ UNCHANGED otherThanSplit

\* ChunkEnd with an inclusive end index
ChunkEndInclusive(from, cs, text_len) == Min(from + cs + 1, text_len)

\* end = min(start + chunk_size, text_len)
ChunkEnd(from, cs, text_len) == Min(from + cs, text_len)

\* NextStart that ignores the overlap
NextStartNoOverlap(end, ov) == end

\* NextStart that is one character too far
NextStartSkip(end, ov) == end - ov + 1

\* start = end - overlap
NextStart(end, ov) == end - ov

\* one iteration of `while start < text_len`
FixedIterate ==
    /\ pc = "fixed_loop"
    /\ start < Len(text)
    /\ LET end == ChunkEnd(start, chunk_size, Len(text))
           chunk == Slice(text, start, end)
       IN /\ chunks' = Append(chunks, chunk)
          /\ IF end = Len(text)
             THEN pc' = "done" /\ start' = start
             ELSE pc' = "fixed_loop" /\ start' = NextStart(end, overlap)
    /\ UNCHANGED <<op, impl, text, chunk_size, overlap, max_chars,
                   tok_failed, units, groups, error, tok_called>>
    /\ UNCHANGED otherThanSplit

\* the loop condition is false: return chunks
FixedReturn ==
    /\ pc = "fixed_loop"
    /\ ~(start < Len(text))
    /\ pc' = "done"
    /\ UNCHANGED <<op, impl, text, chunk_size, overlap, max_chars,
                   tok_failed, units, start, chunks, groups, error,
                   tok_called>>
    /\ UNCHANGED otherThanSplit

split_by_sentence ==
    /\ pc = "call"
    /\ op' = "sentence"
    /\ \E copy \in Copies, maxc \in MaxCharsValues, fails \in BOOLEAN :
          /\ impl' = copy
          /\ max_chars' = maxc
          /\ tok_called' = (text # <<>>)
          /\ IF text = <<>>
             THEN /\ pc' = "done"
                  /\ tok_failed' = FALSE
                  /\ UNCHANGED <<chunk_size, overlap, units, start, chunks,
                                 groups, error>>
             ELSE IF fails
             THEN /\ tok_failed' = TRUE
                  /\ SentenceFallback(maxc)
                  /\ UNCHANGED <<units, groups>>
             ELSE \E sentences \in SentTokenize(text) :
                     LET r == GreedyPack(copy, sentences, maxc, <<" ">>)
                     IN /\ tok_failed' = FALSE
                        /\ units' = sentences
                        /\ chunks' = r.chunks
                        /\ groups' = r.groups
                        /\ pc' = "done"
                        /\ UNCHANGED <<chunk_size, overlap, start, error>>
    /\ UNCHANGED text
    /\ UNCHANGED otherThanSplit

split_by_paragraph ==
    /\ pc = "call"
    /\ op' = "paragraph"
    /\ \E copy \in Copies, maxc \in MaxCharsValues :
          /\ impl' = copy
          /\ max_chars' = maxc
          /\ IF text = <<>>
             THEN UNCHANGED <<units, chunks, groups>>
             ELSE LET paragraphs == Paragraphs(text)
                      r == GreedyPack(copy, paragraphs, maxc, <<"\n">>)
                  IN /\ units' = paragraphs
                     /\ chunks' = r.chunks
                     /\ groups' = r.groups
    /\ pc' = "done"
    /\ UNCHANGED <<text, chunk_size, overlap, tok_failed, start, error,
                   tok_called>>
    /\ UNCHANGED otherThanSplit

Next ==
    \/ split_by_fixed_size
    \/ FixedIterate
    \/ FixedReturn
    \/ split_by_paragraph
    \/ split_by_sentence

Spec == Init /\ [][Next]_vars

TypeOK ==
    /\ pc \in {"call", "fixed_loop", "done"}
    /\ op \in {"none", "fixed", "sentence", "paragraph"}
    /\ error \in {"none", "ValueError"}
    /\ start \in 0..(MaxLen + MaxNegOverlap)

\* ================================================== process_document
MaxDocChunks == 3

DocChunks == {"c1", "c2"}
Vectors == {"v1", "v2"}
None == "None"
KnownStrategies == {"fixed", "sentence", "paragraph"}
StrategyTags == KnownStrategies \cup {"unknown"}
FileName == "test.pdf"

\* what a splitter can return: a list of chunks
ChunkLists == UNION {[1..n -> DocChunks] : n \in 0..MaxDocChunks}

PipeInit ==
    /\ SplitIdle
    /\ DbIdle
    /\ EmbedIdle
    /\ PunktIdle
    /\ LoadIdle
    /\ p_pc = "start"
    /\ p_copy \in Copies
    /\ p_strategy \in StrategyTags
    /\ p_chunks = <<>> /\ p_embeddings = <<>> /\ p_result = "pending"
    /\ p_failure = "none" /\ p_trace = <<>> /\ p_split_calls = <<>>
    /\ p_embed_calls = <<>> /\ p_insert_calls = <<>> /\ p_debug = "none"
    /\ p_raised = {}

\* SetupLoadOk that lets a failed setup_database pass
SetupLoadOkIgnoreSetup(setup_ok, load_ok) == load_ok

\* both calls of the first try block returned
SetupLoadOk(setup_ok, load_ok) == setup_ok /\ load_ok

\* db_manager.setup_database(); text = load_and_clean_document(file_path)
SetupAndLoad ==
    /\ p_pc = "start"
    /\ \E setup_ok, load_ok \in BOOLEAN :
          /\ p_trace' = p_trace \o <<"setup_database">>
                        \o (IF setup_ok THEN <<"load_and_clean_document">>
                            ELSE <<>>)
          /\ IF SetupLoadOk(setup_ok, load_ok)
             THEN p_pc' = "chunk" /\ UNCHANGED <<p_result, p_failure>>
             ELSE /\ p_pc' = "returned"
                  /\ p_result' = None
                  /\ p_failure' = IF setup_ok THEN "load" ELSE "setup"
          /\ p_raised' = IF ~setup_ok THEN {"setup_database"}
                         ELSE IF ~load_ok THEN {"load_and_clean_document"}
                         ELSE {}
    /\ UNCHANGED <<p_copy, p_strategy, p_chunks, p_embeddings,
                   p_split_calls, p_embed_calls, p_insert_calls, p_debug>>
    /\ UNCHANGED otherThanPipe

\* Dispatch that sends an unrecognized tag to the fixed-size splitter
DispatchDefaultFixed(strategy) ==
    IF strategy = "sentence" THEN "split_by_sentence"
    ELSE IF strategy = "paragraph" THEN "split_by_paragraph"
    ELSE "split_by_fixed_size"

\* the if/elif chain on the strategy tag
Dispatch(strategy) ==
    IF strategy = "fixed" THEN "split_by_fixed_size"
    ELSE IF strategy = "sentence" THEN "split_by_sentence"
    ELSE IF strategy = "paragraph" THEN "split_by_paragraph"
    ELSE "UnknownStrategy"

\* chunks = _chunk_text(text, strategy)
ChunkText ==
    /\ p_pc = "chunk"
    /\ IF Dispatch(p_strategy) = "UnknownStrategy"
       THEN /\ p_pc' = "returned"
            /\ p_result' = None
            /\ p_failure' = "UnknownStrategy"
            /\ UNCHANGED <<p_chunks, p_split_calls, p_trace>>
       ELSE /\ \E cs \in ChunkLists : p_chunks' = cs
            /\ p_split_calls' = Append(p_split_calls, Dispatch(p_strategy))
            /\ p_trace' = Append(p_trace, "split")
            /\ p_pc' = "embed"
            /\ UNCHANGED <<p_result, p_failure>>
    /\ UNCHANGED <<p_copy, p_strategy, p_embeddings, p_embed_calls,
                   p_insert_calls, p_debug, p_raised>>
    /\ UNCHANGED otherThanPipe

\* EmbedLoopDone that stops one chunk early
EmbedLoopDoneEarly(n_done, n_chunks) == n_done >= n_chunks - 1

\* `for i, chunk in enumerate(chunks)` is exhausted
EmbedLoopDone(n_done, n_chunks) == n_done = n_chunks

\* vector = embedding_client.get_embedding(chunk); embeddings.append(vector)
EmbedChunk ==
    /\ p_pc = "embed"
    /\ ~EmbedLoopDone(Len(p_embeddings), Len(p_chunks))
    /\ LET chunk == p_chunks[Len(p_embeddings) + 1]
       IN \E vector \in Vectors \cup {None} :
             /\ p_embeddings' = Append(p_embeddings, vector)
             /\ p_embed_calls' = Append(p_embed_calls,
                                    [chunk |-> chunk, vector |-> vector])
    /\ p_trace' = Append(p_trace, "get_embedding")
    /\ UNCHANGED <<p_pc, p_copy, p_strategy, p_chunks, p_result, p_failure,
                   p_split_calls, p_insert_calls, p_debug, p_raised>>
    /\ UNCHANGED otherThanPipe

\* ValidPairs that filters the vectors but keeps every chunk
RECURSIVE ValidPairsAllChunks(_, _)
ValidPairsAllChunks(cs, es) ==
    IF cs = <<>> \/ es = <<>> THEN [chunks |-> cs, vectors |-> <<>>]
    ELSE LET rest == ValidPairsAllChunks(Tail(cs), Tail(es))
         IN IF Head(es) # None
            THEN [chunks |-> <<Head(cs)>> \o rest.chunks,
                  vectors |-> <<Head(es)>> \o rest.vectors]
            ELSE [chunks |-> <<Head(cs)>> \o rest.chunks,
                  vectors |-> rest.vectors]

\* for chunk, vector in zip(chunks, embeddings): if vector is not None: ...
RECURSIVE ValidPairs(_, _)
ValidPairs(cs, es) ==
    IF cs = <<>> \/ es = <<>> THEN [chunks |-> <<>>, vectors |-> <<>>]
    ELSE LET rest == ValidPairs(Tail(cs), Tail(es))
         IN IF Head(es) # None
            THEN [chunks |-> <<Head(cs)>> \o rest.chunks,
                  vectors |-> <<Head(es)>> \o rest.vectors]
            ELSE rest

\* ShouldInsert that saves whatever was collected
ShouldInsertAlways(valid_embeddings) == TRUE

\* if valid_embeddings:
ShouldInsert(valid_embeddings) == valid_embeddings # <<>>

\* filter, insert_chunks when something is valid, (root copy) write the
\* debug file, return embeddings
SaveAndReturn ==
    /\ p_pc = "embed"
    /\ EmbedLoopDone(Len(p_embeddings), Len(p_chunks))
    /\ LET valid == ValidPairs(p_chunks, p_embeddings)
       IN IF ShouldInsert(valid.vectors)
          THEN \E db_ok \in BOOLEAN :
                  /\ p_insert_calls' =
                        Append(p_insert_calls,
                               [filename |-> FileName,
                                strategy |-> p_strategy,
                                chunks |-> valid.chunks,
                                vectors |-> valid.vectors])
                  /\ p_trace' = Append(p_trace, "insert_chunks")
                  /\ p_raised' = IF db_ok THEN p_raised
                                 ELSE p_raised \cup {"insert_chunks"}
          ELSE UNCHANGED <<p_insert_calls, p_trace, p_raised>>
    /\ IF p_copy = "root"
       THEN p_debug' \in {"written", "failed"}
       ELSE UNCHANGED p_debug
    /\ p_result' = "embeddings"
    /\ p_pc' = "returned"
    /\ UNCHANGED <<p_copy, p_strategy, p_chunks, p_embeddings, p_failure,
                   p_split_calls, p_embed_calls>>
    /\ UNCHANGED otherThanPipe

PipeNext ==
    \/ SetupAndLoad
    \/ ChunkText
    \/ EmbedChunk
    \/ SaveAndReturn

SpecPipeline == PipeInit /\ [][PipeNext]_vars

\* ===================================================== insert_chunks
MaxCalls == 3

\* the (filename, strategy) pairs that get indexed
Keys == {<<"a.pdf", "fixed">>, <<"a.pdf", "sentence">>, <<"b.pdf", "fixed">>}
\* the chunk lists and the vector lists a call is given
ChunkArgs == {<<>>, <<"c1">>, <<"c2">>, <<"c2", "c1">>, <<"c1", "c1">>}
VectorArgs == {<<>>, <<"v1">>, <<"v2">>, <<"v2", "v1">>}
\* the step of the call that raises: get_connection or the DELETE
\* ("connect": nothing was changed yet), execute_values, conn.commit()
Failures == {"none", "connect", "insert", "commit"}

DbInit ==
    /\ SplitIdle
    /\ PipeIdle
    /\ EmbedIdle
    /\ PunktIdle
    /\ LoadIdle
    /\ d_store = <<>>
    /\ d_prev = <<>>
    /\ d_call = NoCall
    /\ d_outcome = "none"
    /\ d_ncalls = 0
    /\ d_last = [k \in Keys |-> <<>>]

\* DELETE FROM document_chunks WHERE filename = %s AND split_strategy = %s
DeleteRows(rows, filename, strategy) ==
    LET Keep(r) == ~(r.filename = filename /\ r.split_strategy = strategy)
    IN SelectSeq(rows, Keep)

\* zip(chunks, embeddings, strict=True) raises when the lengths differ
LengthsMatch(cs, es) == Len(cs) = Len(es)

\* data = [(filename, strategy, chunk, embedding) for ...]
NewRows(filename, strategy, cs, es) ==
    [i \in 1..Min(Len(cs), Len(es)) |->
        [filename |-> filename, split_strategy |-> strategy,
         chunk_text |-> cs[i], embedding |-> es[i]]]

\* AfterTransaction that keeps what the transaction did before it failed
AfterTransactionNoRollback(before, txn, raised) == txn

\* conn.commit() on success, conn.rollback() in the except handler
AfterTransaction(before, txn, raised) == IF raised THEN before ELSE txn

\* the table and the outcome after insert_chunks(filename, strategy, cs, es)
\* when the step named by fail raises
InsertChunksResult(rows, filename, strategy, cs, es, fail) ==
    IF cs = <<>> THEN [store |-> rows, outcome |-> "noop"]
    ELSE IF fail = "connect" THEN [store |-> rows, outcome |-> "raised"]
    ELSE LET afterDelete == DeleteRows(rows, filename, strategy)
             raised == fail # "none" \/ ~LengthsMatch(cs, es)
             txn == IF ~LengthsMatch(cs, es) \/ fail = "insert"
                    THEN afterDelete
                    ELSE afterDelete \o NewRows(filename, strategy, cs, es)
         IN [store |-> AfterTransaction(rows, txn, raised),
             outcome |-> IF raised THEN "raised" ELSE "ok"]

insert_chunks ==
    /\ d_ncalls < MaxCalls
    /\ \E k \in Keys, cs \in ChunkArgs, es \in VectorArgs, fail \in Failures :
          LET r == InsertChunksResult(d_store, k[1], k[2], cs, es, fail)
          IN /\ d_store' = r.store
             /\ d_outcome' = r.outcome
             /\ d_call' = [filename |-> k[1], strategy |-> k[2],
                           chunks |-> cs, vectors |-> es]
             /\ d_last' = IF r.outcome = "ok"
                          THEN [d_last EXCEPT ![k] =
                                  [i \in 1..Len(cs) |-> <<cs[i], es[i]>>]]
                          ELSE d_last
    /\ d_prev' = d_store
    /\ d_ncalls' = d_ncalls + 1
    /\ UNCHANGED otherThanDb

DbNext == insert_chunks

SpecDb == DbInit /\ [][DbNext]_vars

\* ===================================================== get_embedding
\* retries = 3
retries == 3

EmbedTexts == {""} \cup DocChunks

\* what one call of client.models.embed_content gives: an exception, a
\* response whose embeddings are None or [], or a response with a vector
RemoteFailures == {"raise", "no_embeddings", "empty_embeddings"}
RemoteOutcomes == RemoteFailures \cup Vectors

EmbedInit ==
    /\ SplitIdle
    /\ PipeIdle
    /\ DbIdle
    /\ PunktIdle
    /\ LoadIdle
    /\ e_pc = "call"
    /\ e_text \in EmbedTexts
    /\ e_attempt = 0
    /\ e_calls = <<>>
    /\ e_result = "pending"
    /\ e_sleeps = 0

\* if not text: return None
get_embedding ==
    /\ e_pc = "call"
    /\ IF e_text = ""
       THEN e_pc' = "returned" /\ e_result' = None
       ELSE e_pc' = "loop" /\ e_result' = e_result
    /\ UNCHANGED <<e_text, e_attempt, e_calls, e_sleeps>>
    /\ UNCHANGED otherThanEmbed

\* LoopExhausted with one more attempt
LoopExhaustedLate(attempt) == attempt > retries

\* for attempt in range(retries): no attempt is left
LoopExhausted(attempt) == attempt >= retries

\* response = self.client.models.embed_content(...);
\* if response.embeddings: return response.embeddings[0].values
EmbedContent ==
    /\ e_pc = "loop"
    /\ ~LoopExhausted(e_attempt)
    /\ \E o \in RemoteOutcomes :
          /\ e_calls' = Append(e_calls, o)
          /\ IF o \in Vectors
             THEN e_pc' = "returned" /\ e_result' = o
                  /\ e_attempt' = e_attempt
             ELSE IF o = "raise"
             THEN e_pc' = "sleep" /\ UNCHANGED <<e_result, e_attempt>>
             ELSE e_pc' = "loop" /\ e_attempt' = e_attempt + 1
                  /\ e_result' = e_result
    /\ UNCHANGED <<e_text, e_sleeps>>
    /\ UNCHANGED otherThanEmbed

\* except Exception: logger.warning(...); time.sleep(1)
Sleep ==
    /\ e_pc = "sleep"
    /\ e_pc' = "loop"
    /\ e_attempt' = e_attempt + 1
    /\ e_sleeps' = e_sleeps + 1
    /\ UNCHANGED <<e_text, e_calls, e_result>>
    /\ UNCHANGED otherThanEmbed

\* logger.error("Failed to generate embedding."); return None
GiveUp ==
    /\ e_pc = "loop"
    /\ LoopExhausted(e_attempt)
    /\ e_pc' = "returned"
    /\ e_result' = None
    /\ UNCHANGED <<e_text, e_attempt, e_calls, e_sleeps>>
    /\ UNCHANGED otherThanEmbed

EmbedNext == get_embedding \/ EmbedContent \/ Sleep \/ GiveUp

SpecEmbed == EmbedInit /\ [][EmbedNext]_vars

\* ===================================================== _ensure_punkt
NThreads == 3
Threads == 1..NThreads

PunktInit ==
    /\ SplitIdle
    /\ PipeIdle
    /\ DbIdle
    /\ EmbedIdle
    /\ LoadIdle
    /\ n_pc = [t \in Threads |-> "idle"]
    /\ n_punkt = FALSE
    /\ n_downloads = 0

\* thread t calls split_by_sentence with a non-empty text and enters
\* _ensure_punkt
CallSentence(t) ==
    /\ n_pc[t] = "idle"
    /\ n_pc' = [n_pc EXCEPT ![t] = "find"]
    /\ UNCHANGED <<n_punkt, n_downloads>>
    /\ UNCHANGED otherThanPunkt

\* nltk.data.find('tokenizers/punkt'); except LookupError
EnsureFind(t) ==
    /\ n_pc[t] = "find"
    /\ n_pc' = [n_pc EXCEPT ![t] = IF n_punkt THEN "tokenize" ELSE "download"]
    /\ UNCHANGED <<n_punkt, n_downloads>>
    /\ UNCHANGED otherThanPunkt

\* nltk.download('punkt'); nltk.download('punkt_tab'); except Exception: raise
EnsureDownload(t) ==
    /\ n_pc[t] = "download"
    /\ \E ok \in BOOLEAN :
          IF ok
          THEN /\ n_punkt' = TRUE
               /\ n_downloads' = n_downloads + 1
               /\ n_pc' = [n_pc EXCEPT ![t] = "tokenize"]
          ELSE /\ n_pc' = [n_pc EXCEPT ![t] = "fallback"]
               /\ UNCHANGED <<n_punkt, n_downloads>>
    /\ UNCHANGED otherThanPunkt

\* sentences = nltk.sent_tokenize(text), then the packing and the return;
\* except Exception
Tokenize(t) ==
    /\ n_pc[t] = "tokenize"
    /\ \E ok \in BOOLEAN :
          n_pc' = [n_pc EXCEPT ![t] = IF ok THEN "returned" ELSE "fallback"]
    /\ UNCHANGED <<n_punkt, n_downloads>>
    /\ UNCHANGED otherThanPunkt

\* return split_by_fixed_size(text, max_chars, 0)
Fallback(t) ==
    /\ n_pc[t] = "fallback"
    /\ n_pc' = [n_pc EXCEPT ![t] = "returned"]
    /\ UNCHANGED <<n_punkt, n_downloads>>
    /\ UNCHANGED otherThanPunkt

\* the thread is free for its next call
NextCall(t) ==
    /\ n_pc[t] = "returned"
    /\ n_pc' = [n_pc EXCEPT ![t] = "idle"]
    /\ UNCHANGED <<n_punkt, n_downloads>>
    /\ UNCHANGED otherThanPunkt

PunktNext ==
    \E t \in Threads :
        \/ CallSentence(t)
        \/ EnsureFind(t)
        \/ EnsureDownload(t)
        \/ Tokenize(t)
        \/ Fallback(t)
        \/ NextCall(t)

SpecPunkt == PunktInit /\ [][PunktNext]_vars

\* ============================================ load_and_clean_document
MaxPages == 2

\* path.suffix of the path given
Suffixes == {".pdf", ".PDF", ".docx", ".png", ""}

\* what a page (extract_text) or a paragraph (para.text) holds
PageContents ==
    {<<>>, <<"a">>, <<" ", "\t">>, <<"a", " ", "\t", "a">>, <<"\n", "a", " ">>}

\* a value that is no text: None
NoText == <<None>>

\* what the parser gives: it raises, or it gives the content of each page
\* (extract_text may give None)
ParseResults ==
    {[raises |-> TRUE, pages |-> <<>>]} \cup
    {[raises |-> FALSE, pages |-> ps] :
        ps \in UNION {[1..n -> PageContents \cup {NoText}] : n \in 0..MaxPages}}

\* str.lower() of the suffix
Lower(suffix) == IF suffix = ".PDF" THEN ".pdf" ELSE suffix

LoadInit ==
    /\ SplitIdle
    /\ PipeIdle
    /\ DbIdle
    /\ EmbedIdle
    /\ PunktIdle
    /\ l_pc = "call"
    /\ l_exists \in BOOLEAN
    /\ l_suffix \in Suffixes
    /\ l_parse \in ParseResults
    /\ Lower(l_suffix) = ".docx" =>
          \A i \in 1..Len(l_parse.pages) : l_parse.pages[i] # NoText
    /\ l_raw = <<>>
    /\ l_result = <<>>
    /\ l_error = "none"

\* if not path.exists(): raise FileNotFoundError
CheckExists ==
    /\ l_pc = "call"
    /\ IF l_exists
       THEN l_pc' = "dispatch" /\ l_error' = l_error
       ELSE l_pc' = "raised" /\ l_error' = "FileNotFoundError"
    /\ UNCHANGED <<l_exists, l_suffix, l_parse, l_raw, l_result>>
    /\ UNCHANGED otherThanLoad

\* [content for each page if content]
RECURSIVE TextParts(_)
TextParts(pages) ==
    IF pages = <<>> THEN <<>>
    ELSE IF Head(pages) = NoText \/ Head(pages) = <<>>
         THEN TextParts(Tail(pages))
         ELSE <<Head(pages)>> \o TextParts(Tail(pages))

\* _extract_from_pdf: None when the reader raises
ExtractFromPdf(parse) ==
    IF parse.raises THEN NoText ELSE Join(TextParts(parse.pages), <<"\n">>)

\* _extract_from_docx: None when the reader raises
ExtractFromDocx(parse) ==
    IF parse.raises THEN NoText ELSE Join(parse.pages, <<"\n">>)

\* ext = path.suffix.lower(); if ext == '.pdf' ... elif ext == '.docx' ...
\* else: raise ValueError
Extract ==
    /\ l_pc = "dispatch"
    /\ IF Lower(l_suffix) = ".pdf"
       THEN l_raw' = ExtractFromPdf(l_parse) /\ l_pc' = "extracted"
            /\ l_error' = l_error
       ELSE IF Lower(l_suffix) = ".docx"
       THEN l_raw' = ExtractFromDocx(l_parse) /\ l_pc' = "extracted"
            /\ l_error' = l_error
       ELSE l_raw' = l_raw /\ l_pc' = "raised" /\ l_error' = "ValueError"
    /\ UNCHANGED <<l_exists, l_suffix, l_parse, l_result>>
    /\ UNCHANGED otherThanLoad

\* re.sub(r'[ \t]+', ' ', text): every run of blanks and tabs becomes one
\* blank
RECURSIVE CollapseBlanks(_)
CollapseBlanks(s) ==
    IF s = <<>> THEN <<>>
    ELSE IF Head(s) \in {" ", "\t"}
         THEN IF Len(s) > 1 /\ s[2] \in {" ", "\t"}
              THEN CollapseBlanks(Tail(s))
              ELSE <<" ">> \o CollapseBlanks(Tail(s))
         ELSE <<Head(s)>> \o CollapseBlanks(Tail(s))

\* _clean_text
CleanText(s) == IF s = <<>> THEN <<>> ELSE Strip(CollapseBlanks(s))

\* if raw_text is None: raise RuntimeError
RaiseOnNone(raw) == raw = NoText

\* cleaned_text = _clean_text(raw_text); return cleaned_text
CleanAndReturn ==
    /\ l_pc = "extracted"
    /\ IF RaiseOnNone(l_raw)
       THEN l_pc' = "raised" /\ l_error' = "RuntimeError"
            /\ l_result' = l_result
       ELSE l_pc' = "returned" /\ l_result' = CleanText(l_raw)
            /\ l_error' = l_error
    /\ UNCHANGED <<l_exists, l_suffix, l_parse, l_raw>>
    /\ UNCHANGED otherThanLoad

LoadNext == CheckExists \/ Extract \/ CleanAndReturn

SpecLoad == LoadInit /\ [][LoadNext]_vars

\* ------------------------------------------------- vocabulary of the claims
Done == pc = "done"

\* the run went through split_by_fixed_size, directly or as the fallback
InFixed == op = "fixed" \/ (op = "sentence" /\ tok_failed)

\* the run packed units
Packed == op \in {"sentence", "paragraph"} /\ ~tok_failed /\ text # <<>>

ValidFixed == 0 <= overlap /\ overlap < chunk_size

Sep == IF op = "sentence" THEN <<" ">> ELSE <<"\n">>

HasNonWhitespace(s) == \E i \in 1..Len(s) : s[i] \notin Whitespace

AllChunksNonEmpty ==
    /\ error = "none"
    /\ chunks # <<>>
    /\ \A i \in 1..Len(chunks) : chunks[i] # <<>>

RECURSIVE SumLen(_)
SumLen(us) == IF us = <<>> THEN 0 ELSE Len(Head(us)) + SumLen(Tail(us))

\* unit lengths plus one separator per unit after the first
JoinedLen(us) == SumLen(us) + Len(us) - 1

RECURSIVE Flatten(_)
Flatten(gs) == IF gs = <<>> THEN <<>> ELSE Head(gs) \o Flatten(Tail(gs))

\* number of units in the groups before group g
Offset(g) == Len(Flatten(SubSeq(groups, 1, g - 1)))

Ceil(a, b) == (a + b - 1) \div b

\* position in the text where chunk i starts, from the lengths of the chunks
\* before it and the overlap
RECURSIVE ExpStart(_)
ExpStart(i) ==
    IF i = 1 THEN 0 ELSE ExpStart(i - 1) + Len(chunks[i - 1]) - overlap

\* first chunk whole, every later chunk without its first ov characters
RECURSIVE Reassemble(_, _)
Reassemble(cs, ov) ==
    IF cs = <<>> THEN <<>>
    ELSE IF Len(cs) = 1 THEN cs[1]
    ELSE Reassemble(SubSeq(cs, 1, Len(cs) - 1), ov)
         \o SubSeq(cs[Len(cs)], ov + 1, Len(cs[Len(cs)]))

\* the chunks of size m without overlap, in closed form
PlainChunks(s, m) ==
    [i \in 1..Ceil(Len(s), m) |-> Slice(s, (i - 1) * m, Min(i * m, Len(s)))]

\* ------------------------------------------------------------------ C1
\* C1 (as stated): for every non-empty text, whitespace-only texts included,
\* each splitter called with valid parameters returns a non-empty list of
\* non-empty chunks.
C1_NonEmptyForEveryText ==
    (/\ Done
     /\ text # <<>>
     /\ op = "fixed" => ValidFixed
     /\ op \in {"sentence", "paragraph"} => max_chars >= 1)
    => AllChunksNonEmpty

\* C1 (amended): split_by_fixed_size, and the fixed-size fallback of
\* split_by_sentence, return a non-empty list of non-empty chunks for every
\* non-empty text; the packing path of split_by_sentence and
\* split_by_paragraph do so for every text with a non-whitespace character.
C1_NonEmptyOutput ==
    (/\ Done
     /\ text # <<>>
     /\ op = "fixed" => ValidFixed
     /\ op \in {"sentence", "paragraph"} => max_chars >= 1
     /\ Packed => HasNonWhitespace(text))
    => AllChunksNonEmpty

C1_Witness ==
    /\ Done /\ op = "paragraph" /\ max_chars >= 1
    /\ HasNonWhitespace(text)
    /\ text[1] \in Whitespace
    /\ Len(chunks) >= 2

\* ------------------------------------------------------------------ C2
\* C2: in both copies of split_by_sentence and split_by_paragraph every chunk
\* built from two or more units has joined length at most max_chars.
C2_MultiUnitChunkWithinMax ==
    (Done /\ Packed) =>
        \A g \in 1..Len(groups) :
            Len(groups[g]) >= 2 =>
                /\ JoinedLen(groups[g]) <= max_chars
                /\ Len(chunks[g]) <= max_chars

\* ------------------------------------------------------------------ C3
\* C3: every chunk of split_by_fixed_size but the last has length chunk_size,
\* the last has length 1..chunk_size, and a text no longer than chunk_size
\* gives the one chunk equal to the text.
C3_FixedChunkLengths ==
    (Done /\ InFixed /\ text # <<>> /\ ValidFixed) =>
        /\ error = "none"
        /\ Len(chunks) >= 1
        /\ \A i \in 1..(Len(chunks) - 1) : Len(chunks[i]) = chunk_size
        /\ Len(chunks[Len(chunks)]) \in 1..chunk_size
        /\ Len(text) <= chunk_size => chunks = <<text>>

C3_Witness ==
    /\ Done /\ op = "fixed" /\ ValidFixed
    /\ Len(chunks) >= 3
    /\ Len(chunks[Len(chunks)]) < chunk_size

\* ------------------------------------------------------------------ C4
\* C4: with 0 < overlap < chunk_size, chunk i+1 of split_by_fixed_size starts
\* at (end of chunk i) - overlap, so the last overlap characters of chunk i
\* are the first overlap characters of chunk i+1.
C4_ConsecutiveOverlap ==
    (Done /\ InFixed /\ error = "none" /\ 0 < overlap /\ overlap < chunk_size)
    => \A i \in 1..Len(chunks) :
          /\ chunks[i] = Slice(text, ExpStart(i), ExpStart(i) + Len(chunks[i]))
          /\ i < Len(chunks) =>
                /\ Len(chunks[i + 1]) >= overlap
                /\ SubSeq(chunks[i], Len(chunks[i]) - overlap + 1,
                          Len(chunks[i]))
                   = SubSeq(chunks[i + 1], 1, overlap)

C4_Witness ==
    /\ Done /\ op = "fixed" /\ 0 < overlap /\ overlap < chunk_size
    /\ Len(chunks) >= 2
    /\ Len(chunks[Len(chunks)]) < chunk_size

\* ------------------------------------------------------------------ C5
\* C5: the first chunk of split_by_fixed_size followed by every later chunk
\* without its first overlap characters is the original text.
C5_RoundTrip ==
    (Done /\ InFixed /\ error = "none" /\ ValidFixed)
    => Reassemble(chunks, overlap) = text

C5_Witness ==
    /\ Done /\ op = "fixed" /\ 0 < overlap /\ overlap < chunk_size
    /\ Len(chunks) >= 3
    /\ \E i \in 1..(Len(text) - 1) : text[i] # text[i + 1]

\* ------------------------------------------------------------------ C6
\* C6: split_by_fixed_size returns ceil((len - overlap)/(chunk_size - overlap))
\* chunks when len(text) > chunk_size and one chunk for a non-empty text no
\* longer than chunk_size.
C6_ChunkCount ==
    (Done /\ InFixed /\ text # <<>> /\ ValidFixed) =>
        IF Len(text) > chunk_size
        THEN Len(chunks) = Ceil(Len(text) - overlap, chunk_size - overlap)
        ELSE Len(chunks) = 1

C6_Witness ==
    /\ Done /\ op = "fixed" /\ 0 < overlap /\ overlap < chunk_size
    /\ Len(text) > chunk_size
    /\ (Len(text) - overlap) % (chunk_size - overlap) # 0
    /\ Len(chunks) >= 2

\* ------------------------------------------------------------------ C7
\* C7 (as stated): for every text, split_by_fixed_size with
\* overlap >= chunk_size fails with ValueError and returns no chunk list.
C7_InvalidAlwaysRaises ==
    (InFixed /\ overlap >= chunk_size) =>
        pc = "done" /\ error = "ValueError" /\ chunks = <<>>

\* C7 (amended): the same for every non-empty text; the loop is never
\* entered.
C7_InvalidRaisesOnNonEmpty ==
    (InFixed /\ overlap >= chunk_size /\ text # <<>>) =>
        pc = "done" /\ error = "ValueError" /\ chunks = <<>>

C7_Witness ==
    /\ op = "fixed" /\ overlap = chunk_size /\ chunk_size >= 1
    /\ text # <<>> /\ error = "ValueError"

\* ------------------------------------------------------------------ C8
\* C8: a unit longer than max_chars is emitted as a chunk that is exactly
\* that unit, joined with no neighbour.
C8_OversizedUnitAlone ==
    (Done /\ Packed) =>
        \A k \in 1..Len(units) :
            Len(units[k]) > max_chars =>
                \E g \in 1..Len(groups) :
                    /\ Offset(g) = k - 1
                    /\ groups[g] = <<units[k]>>
                    /\ chunks[g] = units[k]

C8_Witness ==
    /\ Done /\ Packed
    /\ \E k \in 2..(Len(units) - 1) :
          /\ Len(units[k]) > max_chars
          /\ Len(units[k - 1]) <= max_chars
          /\ Len(units[k + 1]) <= max_chars

\* ------------------------------------------------------------------ C9
\* C9: the units of the chunks, listed chunk after chunk, are the input
\* units: none dropped, duplicated or reordered.
C9_UnitsPreserved ==
    (Done /\ Packed) =>
        /\ Len(chunks) = Len(groups)
        /\ Flatten(groups) = units
        /\ \A g \in 1..Len(groups) : chunks[g] = Join(groups[g], Sep)
        /\ Join(chunks, Sep) = Join(units, Sep)

C9_Witness ==
    /\ Done /\ Packed
    /\ Len(groups) >= 2
    /\ Len(units) >= 3
    /\ \E g \in 1..Len(groups) : Len(groups[g]) >= 2
    /\ \E i, j \in 1..Len(units) : units[i] # units[j]

\* ----------------------------------------------------------------- C10
\* C10 (as stated): when the tokenizer fails, split_by_sentence raises
\* nothing and returns split_by_fixed_size(text, max_chars, 0), for every
\* max_chars.
C10_FallbackNeverRaises ==
    (Done /\ op = "sentence" /\ tok_failed) =>
        /\ error = "none"
        /\ max_chars >= 1 => chunks = PlainChunks(text, max_chars)

\* C10 (amended): the same for every max_chars >= 1.
C10_FallbackFixedSize ==
    (Done /\ op = "sentence" /\ tok_failed /\ max_chars >= 1) =>
        /\ error = "none"
        /\ chunk_size = max_chars /\ overlap = 0
        /\ chunks = PlainChunks(text, max_chars)

C10_Witness ==
    /\ Done /\ op = "sentence" /\ tok_failed
    /\ max_chars >= 1 /\ Len(text) > max_chars
    /\ Len(chunks) >= 2

\* ----------------------------------------------------------------- C11
\* C11: for the empty text each of the three splitters returns the empty
\* list without error and without calling the tokenizer, whatever the
\* parameters.
C11_EmptyTextEmptyList ==
    (text = <<>> /\ op # "none") =>
        /\ pc = "done"
        /\ error = "none"
        /\ chunks = <<>>
        /\ ~tok_called

C11_Witness ==
    /\ pc = "done" /\ text = <<>> /\ op = "fixed"
    /\ overlap >= chunk_size

\* --------------------------------------- vocabulary of the pipeline claims
Returned == p_pc = "returned"

NoSplitEmbedInsert ==
    /\ p_split_calls = <<>>
    /\ p_embed_calls = <<>>
    /\ p_insert_calls = <<>>

\* positions of the chunks whose embedding succeeded
Embedded == {i \in 1..Len(p_embeddings) : p_embeddings[i] # None}

\* the k-th smallest element of a set of positions
Nth(idx, k) == CHOOSE i \in idx : Cardinality({j \in idx : j <= i}) = k

Rank(call) ==
    IF call = "setup_database" THEN 1
    ELSE IF call = "load_and_clean_document" THEN 2
    ELSE IF call = "split" THEN 3
    ELSE IF call = "get_embedding" THEN 4
    ELSE 5

Count(seq, x) == Cardinality({i \in 1..Len(seq) : seq[i] = x})

\* ----------------------------------------------------------------- C12
\* C12: a run with an unrecognized strategy tag fails at dispatch with the
\* unknown-strategy error: no splitter, no get_embedding and no
\* insert_chunks call is made and process_document returns None.
C12_UnknownStrategyNoWork ==
    (p_strategy \notin KnownStrategies /\ p_pc # "idle") =>
        /\ NoSplitEmbedInsert
        /\ Returned => p_result = None
        /\ (Returned /\ p_raised = {}) => p_failure = "UnknownStrategy"

C12_Witness ==
    /\ Returned /\ p_strategy = "unknown"
    /\ p_failure = "UnknownStrategy"
    /\ p_trace = <<"setup_database", "load_and_clean_document">>

\* ----------------------------------------------------------------- C13
\* C13: embeddings that fail do not abort the run; insert_chunks receives
\* exactly the chunks whose vector is not None, in order, and at position k
\* the vector computed for the chunk at position k.
C13_InsertGetsEmbeddedChunks ==
    (Returned /\ Embedded # {}) =>
        /\ p_result = "embeddings"
        /\ Len(p_insert_calls) = 1
        /\ LET c == p_insert_calls[1]
           IN /\ Len(c.chunks) = Cardinality(Embedded)
              /\ Len(c.vectors) = Cardinality(Embedded)
              /\ \A k \in 1..Cardinality(Embedded) :
                    /\ c.chunks[k] = p_chunks[Nth(Embedded, k)]
                    /\ p_embed_calls[Nth(Embedded, k)] =
                          [chunk |-> c.chunks[k], vector |-> c.vectors[k]]

C13_Witness ==
    /\ Returned /\ Len(p_chunks) = 3
    /\ p_chunks[1] # p_chunks[3]
    /\ p_embeddings[1] # None /\ p_embeddings[2] = None
    /\ p_embeddings[3] # None /\ p_embeddings[1] # p_embeddings[3]
    /\ Len(p_insert_calls) = 1

\* ----------------------------------------------------------------- C14
\* C14: a run in which no chunk got a vector (or there is no chunk) makes no
\* insert_chunks call and returns the embeddings list.
C14_NoEmbeddingNoInsert ==
    (Returned /\ p_failure = "none" /\ Embedded = {}) =>
        /\ p_insert_calls = <<>>
        /\ "insert_chunks" \notin p_raised
        /\ p_result = "embeddings"

C14_Witness ==
    /\ Returned /\ p_failure = "none"
    /\ Len(p_chunks) >= 2 /\ Len(p_embeddings) = Len(p_chunks)
    /\ Embedded = {}

\* ----------------------------------------------------------------- C15
\* C15: when setup_database or load_and_clean_document raises,
\* process_document returns None and makes no splitter, get_embedding or
\* insert_chunks call.
C15_SetupOrLoadFailureAborts ==
    (p_raised \cap {"setup_database", "load_and_clean_document"} # {}) =>
        /\ Returned
        /\ p_result = None
        /\ NoSplitEmbedInsert

C15_Witness ==
    /\ Returned /\ p_raised = {"load_and_clean_document"}
    /\ p_strategy \in KnownStrategies

\* ----------------------------------------------------------------- C16
\* C16: the calls of a run are ordered setup, load, chunk, embed, persist;
\* get_embedding is called once per chunk, in chunk order, and
\* insert_chunks at most once, after the call for the last chunk.
C16_StepOrder ==
    /\ \A i, j \in 1..Len(p_trace) :
          i < j => /\ Rank(p_trace[i]) <= Rank(p_trace[j])
                   /\ p_trace[i] = p_trace[j] => p_trace[i] = "get_embedding"
    /\ Count(p_trace, "get_embedding") = Len(p_embed_calls)
    /\ Len(p_embed_calls) <= Len(p_chunks)
    /\ \A i \in 1..Len(p_embed_calls) : p_embed_calls[i].chunk = p_chunks[i]
    /\ Len(p_insert_calls) <= 1
    /\ (p_insert_calls # <<>> \/ p_result = "embeddings") =>
          Len(p_embed_calls) = Len(p_chunks)

C16_Witness ==
    /\ Returned /\ Len(p_chunks) = 3
    /\ p_trace = <<"setup_database", "load_and_clean_document", "split",
                   "get_embedding", "get_embedding", "get_embedding",
                   "insert_chunks">>

\* ----------------------------------------- vocabulary of the store claims
\* the (chunk, vector) pairs stored under a key, in table order
RowsOf(rows, filename, strategy) ==
    LET Mine(r) == r.filename = filename /\ r.split_strategy = strategy
        mine == SelectSeq(rows, Mine)
    IN [i \in 1..Len(mine) |-> <<mine[i].chunk_text, mine[i].embedding>>]

GivenPairs ==
    [i \in 1..Len(d_call.chunks) |-> <<d_call.chunks[i], d_call.vectors[i]>>]

OtherKeysUnchanged ==
    \A k \in Keys :
        k # <<d_call.filename, d_call.strategy>> =>
            RowsOf(d_store, k[1], k[2]) = RowsOf(d_prev, k[1], k[2])

\* ----------------------------------------------------------------- C17
\* C17: after any call of insert_chunks with as many chunks as vectors that
\* returns without error, the rows of the key are exactly the given pairs
\* (the rows the key had before are gone), and the rows of every other key
\* are unchanged.
C17_ReplaceOnEveryCall ==
    (/\ d_outcome \in {"ok", "noop"}
     /\ Len(d_call.chunks) = Len(d_call.vectors)) =>
        /\ RowsOf(d_store, d_call.filename, d_call.strategy) = GivenPairs
        /\ OtherKeysUnchanged

\* What insert_chunks does keep: the key is replaced by every successful
\* call with at least one chunk; a call without chunks leaves the table as
\* it was; so every key holds the rows of its most recent successful call
\* with chunks.
ReplaceWhenChunksGiven ==
    /\ (d_outcome = "ok" /\ d_call.chunks # <<>>) =>
          /\ RowsOf(d_store, d_call.filename, d_call.strategy) = GivenPairs
          /\ OtherKeysUnchanged
    /\ d_outcome = "noop" => (d_call.chunks = <<>> /\ d_store = d_prev)
    /\ d_ncalls > 0 =>
          \A k \in Keys : RowsOf(d_store, k[1], k[2]) = d_last[k]

\* a call without chunks returned and the rows of its key are still there
StaleRowsAfterEmptyCall ==
    /\ d_outcome = "noop"
    /\ RowsOf(d_store, d_call.filename, d_call.strategy) # <<>>

\* ----------------------------------------------------------------- C18
\* C18: insert_chunks with chunks and a different number of vectors raises
\* and leaves the table as it was before the call; so does a call whose
\* bulk insert fails.
C18_FailedInsertRollsBack ==
    /\ (d_call.chunks # <<>> /\ Len(d_call.chunks) # Len(d_call.vectors)) =>
          d_outcome = "raised"
    /\ d_outcome = "raised" => d_store = d_prev

C18_Witness ==
    /\ d_outcome = "raised"
    /\ d_call.chunks # <<>> /\ Len(d_call.chunks) # Len(d_call.vectors)
    /\ RowsOf(d_prev, d_call.filename, d_call.strategy) # <<>>

\* ----------------------------------------------------------------- C19
\* C19: get_embedding never raises: it stops only by returning; for the
\* empty text it returns None without a remote call; for any other text
\* it calls the remote service until the first call that gives a vector and
\* returns that vector, with at most `retries` calls, and returns None when
\* `retries` calls have failed.
C19_GetEmbeddingNeverRaises ==
    /\ e_pc # "returned" => ENABLED EmbedNext
    /\ Len(e_calls) <= retries
    /\ \A i \in 1..(Len(e_calls) - 1) : e_calls[i] \in RemoteFailures
    /\ e_pc = "returned" =>
          IF e_text = ""
          THEN e_result = None /\ e_calls = <<>>
          ELSE /\ e_calls # <<>>
               /\ IF e_calls[Len(e_calls)] \in Vectors
                  THEN e_result = e_calls[Len(e_calls)]
                  ELSE e_result = None /\ Len(e_calls) = retries

C19_Witness ==
    /\ e_pc = "returned" /\ e_result = None
    /\ e_calls = <<"raise", "raise", "raise">>

\* ----------------------------------------------------------------- C20
\* C20: the check-then-download of _ensure_punkt is a guarded load-once
\* step: at most one thread is inside the download at any time and the
\* tokenizer data is downloaded at most once.
C20_GuardedLoadOnce ==
    /\ Cardinality({t \in DOMAIN n_pc : n_pc[t] = "download"}) <= 1
    /\ n_downloads <= 1

\* ------------------------------------- vocabulary of the loader claim
LoadDone == l_pc \in {"raised", "returned"}

Supported == Lower(l_suffix) \in {".pdf", ".docx"}

\* the parser raised, or no page or paragraph it gave holds a character
NoContent ==
    \/ l_parse.raises
    \/ \A i \in 1..Len(l_parse.pages) :
          l_parse.pages[i] = NoText \/ l_parse.pages[i] = <<>>

\* ----------------------------------------------------------------- C21
\* C21: load_and_clean_document fails with FileNotFoundError when the path
\* does not exist, with ValueError when the extension is neither .pdf nor
\* .docx, and with RuntimeError whenever the parser yields no content; it
\* returns text only when the parser produced content.
C21_LoaderErrors ==
    LoadDone =>
        /\ ~l_exists => l_error = "FileNotFoundError"
        /\ (l_exists /\ ~Supported) => l_error = "ValueError"
        /\ (l_exists /\ Supported /\ NoContent) => l_error = "RuntimeError"
        /\ l_pc = "returned" => ~NoContent

\* What the loader does keep: the three errors for a missing path, an
\* unsupported extension and a parser that raises; everything else
\* returns the cleaned text, which may be empty.
LoaderRaisesOnlyOnParserError ==
    LoadDone =>
        /\ ~l_exists => l_error = "FileNotFoundError"
        /\ (l_exists /\ ~Supported) => l_error = "ValueError"
        /\ (l_exists /\ Supported /\ l_parse.raises) =>
              l_error = "RuntimeError"
        /\ (l_exists /\ Supported /\ ~l_parse.raises) =>
              l_pc = "returned" /\ l_result = CleanText(l_raw)

\* a document without any text was loaded and the empty text returned
EmptyDocumentReturned ==
    /\ l_pc = "returned" /\ l_result = <<>> /\ NoContent

\* ----------------------------------------------------------------- C22
\* C22: in both copies of split_by_sentence and split_by_paragraph, for
\* every two consecutive chunks the joined length of the earlier chunk plus
\* one separator plus the length of the first unit of the later chunk is
\* greater than max_chars.
C22_BoundaryOnlyWhenNeeded ==
    (Done /\ Packed) =>
        \A g \in 1..(Len(groups) - 1) :
            JoinedLen(groups[g]) + 1 + Len(groups[g + 1][1]) > max_chars

C22_Witness ==
    /\ Done /\ Packed /\ impl = "root"
    /\ Len(groups) >= 2
    /\ Len(groups[1]) >= 2
    /\ JoinedLen(groups[1]) < max_chars

\* ----------------------------------------------------------------- C23
\* C23: for every text and every chunk_size >= 1 with overlap < chunk_size
\* the loop of split_by_fixed_size moves `start` forward by
\* chunk_size - overlap in every iteration, runs at most len(text) times and
\* ends with the chunk whose end is len(text).
C23_FixedLoopEndsAtTextEnd ==
    (InFixed /\ text # <<>> /\ chunk_size >= 1 /\ overlap < chunk_size) =>
        /\ pc = "fixed_loop" => start = Len(chunks) * (chunk_size - overlap)
        /\ Len(chunks) <= Len(text)
        /\ Done =>
              /\ chunks # <<>>
              /\ (Len(chunks) - 1) * (chunk_size - overlap)
                    + Len(chunks[Len(chunks)]) = Len(text)

\* What the loop does keep: it always moves forward and stops after at most
\* len(text) iterations; with 0 <= overlap it ends with the chunk whose end
\* is len(text).
FixedLoopTerminates ==
    (InFixed /\ text # <<>> /\ chunk_size >= 1 /\ overlap < chunk_size) =>
        /\ pc = "fixed_loop" => start = Len(chunks) * (chunk_size - overlap)
        /\ Len(chunks) <= Len(text)
        /\ (Done /\ 0 <= overlap) =>
              /\ chunks # <<>>
              /\ (Len(chunks) - 1) * (chunk_size - overlap)
                    + Len(chunks[Len(chunks)]) = Len(text)

\* with a negative overlap the cursor went past the end of the text and the
\* loop ended without a chunk that reaches the end
TextEndDropped ==
    /\ Done /\ op = "fixed" /\ error = "none" /\ overlap < 0
    /\ chunks # <<>>
    /\ start >= Len(text)
    /\ ExpStart(Len(chunks)) + Len(chunks[Len(chunks)]) < Len(text)

\* ----------------------------------------------------------------- C24
\* C24: for every unit sequence and every max_chars the packing loop of
\* text_splitter.py returns the same chunk list as the packing loop of
\* src/text_splitter.py.
C24_CopiesEquivalent ==
    (Done /\ Packed) =>
        GreedyPack("root", units, max_chars, Sep).chunks
            = GreedyPack("src", units, max_chars, Sep).chunks

\* the copies differ: the chunks returned are not those of the other copy
CopiesDiffer ==
    /\ Done /\ Packed /\ impl = "root"
    /\ chunks # GreedyPack("src", units, max_chars, Sep).chunks
====
